---- MODULE Spec2Model ----
(***************************************************************************)
(* Model of faang.py: get_data downloads one hourly series per ticker,     *)
(* merges them into one table and writes data/<UTC timestamp>.csv;         *)
(* plot_data loads the latest table, normalizes Close per ticker and       *)
(* writes plots/<UTC timestamp>.png; main selects the stages.              *)
(*                                                                         *)
(* Strings that the program orders (file names, tickers) are sequences of  *)
(* character codes, so that the order is the one Python computes.  A       *)
(* table row keeps the columns the program reads: Datetime, Close and      *)
(* Ticker.  Datetime is an hour index.  A float is NA (NaN / pd.NA), the   *)
(* empty tuple, or a fraction <<numerator, denominator>> in lowest terms;  *)
(* <<1, 0>> is inf.                                                        *)
(***************************************************************************)
EXTENDS Integers, Sequences, FiniteSets, TLC

VARIABLES
    now,      \* the UTC wall clock, [Y, Mo, D, H, Mi, S]
    ticks,    \* seconds elapsed since Init
    fs,       \* the file system: path -> [kind, body, seq]
    nGet,     \* successful get_data calls so far
    nPlot,    \* successful plot_data calls so far
    last,     \* the most recent call: "none", "get_data" or "plot_data"
    raised,   \* the exception the most recent call raised, or None
    pre,      \* fs as it was when the most recent call started
    tickers,  \* the argument of the most recent get_data call
    fetched,  \* what yf.download returned in it, per ticker
    lastCsv,  \* the file the most recent successful get_data wrote
    loaded,   \* the file the most recent plot_data read
    df,       \* plot_data's data frame after line 89
    dfPrev,   \* <<df>> of the plot_data call before if no get_data ran between, else <<>>
    pc,       \* position of the running process
    argv,     \* its command line arguments
    action,   \* args.action
    stages,   \* the stages main has called in this run, in order
    runs      \* processes started so far

vars == <<now, ticks, fs, nGet, nPlot, last, raised, pre, tickers, fetched,
          lastCsv, loaded, df, dfPrev, pc, argv, action, stages, runs>>

None == "None"
NA == <<>>
Inf == <<1, 0>>
Num(n) == <<n, 1>>

(***************************************************************************)
(* Bounds of the model.                                                    *)
(***************************************************************************)
MaxTime == 2     \* hourly timestamps of a fetched series are 1..MaxTime
MaxClose == 2    \* a present close is 0..MaxClose
MaxLen == 2      \* longest ticker list the test caller passes
MaxTicks == 2    \* seconds the clock advances
MaxRuns == 2     \* processes started

(***************************************************************************)
(* Character strings.                                                      *)
(***************************************************************************)
META == <<77, 69, 84, 65>>
AAPL == <<65, 65, 80, 76>>
AMZN == <<65, 77, 90, 78>>
NFLX == <<78, 70, 76, 88>>
GOOG == <<71, 79, 79, 71>>
FAANG == <<META, AAPL, AMZN, NFLX, GOOG>>

DotCsv == <<46, 99, 115, 118>>
DotPng == <<46, 112, 110, 103>>
DashChar == 45

\* Python's str comparison: lexicographic by code point, a proper prefix first.
StrLess(a, b) ==
    \E i \in 1..Len(b) :
        /\ i - 1 <= Len(a)
        /\ \A j \in 1..(i - 1) : a[j] = b[j]
        /\ (i > Len(a) \/ a[i] < b[i])

EndsWith(s, suffix) ==
    /\ Len(s) >= Len(suffix)
    /\ SubSeq(s, Len(s) - Len(suffix) + 1, Len(s)) = suffix

RECURSIVE Digits(_)
Digits(n) == IF n < 10 THEN <<48 + n>> ELSE Append(Digits(n \div 10), 48 + (n % 10))

\* strftime's %Y (years 1000..9999), %m, %d, %H, %M, %S: zero-padded decimal.
PadUnpadded(n, width) == Digits(n)
Pad(n, width) ==
    LET d == Digits(n)
    IN  IF Len(d) >= width THEN d ELSE [i \in 1..(width - Len(d)) |-> 48] \o d

timestamp_str(t) ==
    Pad(t.Y, 4) \o Pad(t.Mo, 2) \o Pad(t.D, 2) \o <<DashChar>>
        \o Pad(t.H, 2) \o Pad(t.Mi, 2) \o Pad(t.S, 2)

(***************************************************************************)
(* The UTC clock, one second at a time.                                    *)
(***************************************************************************)
IsLeap(y) == (y % 4 = 0 /\ y % 100 # 0) \/ y % 400 = 0
DaysInMonth(y, m) ==
    IF m = 2 THEN (IF IsLeap(y) THEN 29 ELSE 28)
    ELSE IF m \in {4, 6, 9, 11} THEN 30 ELSE 31

NextSecond(t) ==
    IF t.S < 59 THEN [t EXCEPT !.S = t.S + 1]
    ELSE IF t.Mi < 59 THEN [t EXCEPT !.S = 0, !.Mi = t.Mi + 1]
    ELSE IF t.H < 23 THEN [t EXCEPT !.S = 0, !.Mi = 0, !.H = t.H + 1]
    ELSE IF t.D < DaysInMonth(t.Y, t.Mo)
         THEN [t EXCEPT !.S = 0, !.Mi = 0, !.H = 0, !.D = t.D + 1]
    ELSE IF t.Mo < 12
         THEN [t EXCEPT !.S = 0, !.Mi = 0, !.H = 0, !.D = 1, !.Mo = t.Mo + 1]
    ELSE [Y |-> t.Y + 1, Mo |-> 1, D |-> 1, H |-> 0, Mi |-> 0, S |-> 0]

StartTimes ==
    { [Y |-> 2025, Mo |-> 12, D |-> 31, H |-> 23, Mi |-> 59, S |-> 59],
      [Y |-> 2026, Mo |-> 2, D |-> 28, H |-> 9, Mi |-> 59, S |-> 58] }

(***************************************************************************)
(* The file system.  A path is [dir, name]; a file is [kind, body, seq],   *)
(* seq being the order in which the files were written.                    *)
(***************************************************************************)
NoFile == [kind |-> "none", body |-> <<>>, seq |-> 0]

WriteFile(f, p, file) == [q \in DOMAIN f \cup {p} |-> IF q = p THEN file ELSE f[q]]

\* data_dir.glob("*.csv")
GlobCsv(f) == {p \in DOMAIN f : p.dir = "data" /\ EndsWith(p.name, DotCsv)}

\* sorted(files)[-1]
Latest(f) ==
    CHOOSE p \in GlobCsv(f) : \A q \in GlobCsv(f) : q = p \/ StrLess(q.name, p.name)

DataPath(t) == [dir |-> "data", name |-> timestamp_str(t) \o DotCsv]
PlotOutPathInData(t) == [dir |-> "data", name |-> timestamp_str(t) \o DotCsv]
PlotOutPath(t) == [dir |-> "plots", name |-> timestamp_str(t) \o DotPng]

(***************************************************************************)
(* to_csv and read_csv: a number is written in decimal, a missing value as *)
(* the empty cell; a cell that is no number reads as missing.              *)
(***************************************************************************)
FormatNum(x) == IF x = NA THEN <<>> ELSE Digits(x[1])

RECURSIVE ParseDigits(_)
ParseDigits(s) ==
    IF Len(s) = 1 THEN s[1] - 48
    ELSE 10 * ParseDigits(SubSeq(s, 1, Len(s) - 1)) + (s[Len(s)] - 48)

\* pd.to_numeric(errors="coerce")
ParseNum(s) ==
    IF s # <<>> /\ \A i \in 1..Len(s) : s[i] \in 48..57 THEN Num(ParseDigits(s)) ELSE NA

ToCsv(rows) ==
    [i \in 1..Len(rows) |->
        [Datetime |-> Digits(rows[i].Datetime),
         Close |-> FormatNum(rows[i].Close),
         Ticker |-> rows[i].Ticker]]

ReadCsv(body) ==
    [i \in 1..Len(body) |->
        [Datetime |-> ParseDigits(body[i].Datetime),
         Close |-> ParseNum(body[i].Close),
         Ticker |-> body[i].Ticker]]

(***************************************************************************)
(* DataFrame.sort_values(by): a stable sort on the columns of by.          *)
(***************************************************************************)
ColLess(col, x, y) == IF col = "Ticker" THEN StrLess(x, y) ELSE x < y

RowLess(a, b, by) ==
    \E i \in 1..Len(by) :
        /\ \A j \in 1..(i - 1) : a[by[j]] = b[by[j]]
        /\ ColLess(by[i], a[by[i]], b[by[i]])

\* r goes after every row that is not greater than it
Insert(s, r, by) ==
    LET k == Cardinality({i \in 1..Len(s) : ~RowLess(r, s[i], by)})
    IN  SubSeq(s, 1, k) \o <<r>> \o SubSeq(s, k + 1, Len(s))

RECURSIVE SortValues(_, _)
SortValues(rows, by) ==
    IF rows = <<>> THEN <<>>
    ELSE Insert(SortValues(SubSeq(rows, 1, Len(rows) - 1), by), rows[Len(rows)], by)

(***************************************************************************)
(* get_data                                                                *)
(***************************************************************************)
GetDataError == "RuntimeError"

\* df["Ticker"] = t
TagTickerFirst(series, t) ==
    [i \in 1..Len(series) |->
        [Datetime |-> series[i].Datetime, Close |-> series[i].Close, Ticker |-> META]]
TagTicker(series, t) ==
    [i \in 1..Len(series) |->
        [Datetime |-> series[i].Datetime, Close |-> series[i].Close, Ticker |-> t]]

\* the loop of lines 38-57: one frame per ticker whose download is not empty
RECURSIVE Dfs(_, _)
Dfs(ts, w) ==
    IF ts = <<>> THEN <<>>
    ELSE (IF w[Head(ts)] = <<>> THEN <<>> ELSE <<TagTicker(w[Head(ts)], Head(ts))>>)
             \o Dfs(Tail(ts), w)

\* pd.concat(dfs, ignore_index=True)
RECURSIVE Concat(_)
Concat(dfs) == IF dfs = <<>> THEN <<>> ELSE Head(dfs) \o Concat(Tail(dfs))

\* if not dfs
NoDataNever(dfs) == FALSE
NoData(dfs) == dfs = <<>>

GetDataSortKeysTimeOnly == <<"Datetime">>
GetDataSortKeys == <<"Datetime", "Ticker">>

get_data(ts, w) ==
    LET dfs == Dfs(ts, w)
    IN  /\ last' = "get_data"
        /\ pre' = fs
        /\ tickers' = ts
        /\ fetched' = w
        /\ dfPrev' = <<>>
        /\ IF NoData(dfs)
           THEN /\ raised' = GetDataError
                /\ UNCHANGED <<fs, nGet, lastCsv>>
           ELSE LET combined == SortValues(Concat(dfs), GetDataSortKeys)
                    file == [kind |-> "csv", body |-> ToCsv(combined),
                             seq |-> nGet + nPlot + 1]
                IN  /\ fs' = WriteFile(fs, DataPath(now), file)
                    /\ nGet' = nGet + 1
                    /\ lastCsv' = file
                    /\ raised' = None
        /\ UNCHANGED <<now, ticks, nPlot, loaded, df>>

(***************************************************************************)
(* plot_data                                                               *)
(***************************************************************************)
PlotDataErrorSame == "RuntimeError"
PlotDataError == "FileNotFoundError"

PlotSortKeys == <<"Ticker", "Datetime">>

RECURSIVE Gcd(_, _)
Gcd(a, b) == IF b = 0 THEN a ELSE Gcd(b, a % b)

\* float division of x by b (closes are not negative): x / 0 is inf, 0 / 0 and
\* anything with a missing operand is NaN
Div(x, b) ==
    IF x = NA \/ b = NA THEN NA
    ELSE LET n == x[1] * b[2]
             d == x[2] * b[1]
         IN  IF d = 0 THEN (IF n = 0 THEN NA ELSE Inf)
             ELSE <<n \div Gcd(n, d), d \div Gcd(n, d)>>

DropNa(series) == SelectSeq(series, LAMBDA x : x # NA)

\* base = series.dropna().iloc[0] if not series.dropna().empty else pd.NA
FirstValidNoDropNa(series) == IF series # <<>> THEN series[1] ELSE NA
FirstValid(series) == IF DropNa(series) # <<>> THEN DropNa(series)[1] ELSE NA

\* pd.notna(base) and base != 0
BaseUsableNoZeroTest(base) == base # NA
BaseUsable(base) == base # NA /\ base # Num(0)

\* _normalize; transform broadcasts the scalar pd.NA over the group
Normalize(series) ==
    LET base == FirstValid(series)
    IN  IF BaseUsable(base)
        THEN [i \in 1..Len(series) |-> Div(series[i], base)]
        ELSE [i \in 1..Len(series) |-> NA]

GroupClose(d, t) ==
    LET g == SelectSeq(d, LAMBDA r : r.Ticker = t)
    IN  [k \in 1..Len(g) |-> g[k].Close]

\* df["NormClose"] = df.groupby("Ticker")["Close"].transform(_normalize)
WithNormClose(d) ==
    [i \in 1..Len(d) |->
        LET t == d[i].Ticker
            k == Cardinality({j \in 1..i : d[j].Ticker = t})
        IN  [Datetime |-> d[i].Datetime, Ticker |-> t, Close |-> d[i].Close,
             NormClose |-> Normalize(GroupClose(d, t))[k]]]

\* g.dropna(subset=["NormClose"]) of the group of t, as the points of its line
Points(d, t) ==
    LET g == SelectSeq(d, LAMBDA r : r.Ticker = t /\ r.NormClose # NA)
    IN  [k \in 1..Len(g) |-> <<g[k].Datetime, g[k].NormClose>>]

\* one plt.plot per group that is not empty after dropna
Lines(d) ==
    LET drawn == {t \in {d[i].Ticker : i \in 1..Len(d)} : Points(d, t) # <<>>}
    IN  [t \in drawn |-> Points(d, t)]

\* latest.stem.split("-")[0]
TitleDate(name) ==
    LET dots == {i \in 1..Len(name) : name[i] = 46}
        lastDot == CHOOSE i \in dots : \A j \in dots : j <= i
        stem == IF dots = {} \/ lastDot = 1 THEN name ELSE SubSeq(name, 1, lastDot - 1)
        dashes == {i \in 1..Len(stem) : stem[i] = DashChar}
        firstDash == CHOOSE i \in dashes : \A j \in dashes : i <= j
    IN  IF dashes = {} THEN stem ELSE SubSeq(stem, 1, firstDash - 1)

plot_data ==
    /\ last' = "plot_data"
    /\ pre' = fs
    /\ IF GlobCsv(fs) = {}
       THEN /\ raised' = PlotDataError
            /\ UNCHANGED <<fs, nPlot, loaded, df, dfPrev>>
       ELSE LET latest == Latest(fs)
                file == fs[latest]
            IN  IF file.kind # "csv"
                THEN /\ raised' = "ParserError"
                     /\ UNCHANGED <<fs, nPlot, loaded, df, dfPrev>>
                ELSE LET d == WithNormClose(SortValues(ReadCsv(file.body), PlotSortKeys))
                         chart == [lines |-> Lines(d), title |-> TitleDate(latest.name)]
                     IN  /\ fs' = WriteFile(fs, PlotOutPath(now),
                                      [kind |-> "png", body |-> chart,
                                       seq |-> nGet + nPlot + 1])
                         /\ nPlot' = nPlot + 1
                         /\ loaded' = file
                         /\ df' = d
                         /\ dfPrev' = IF last = "plot_data" /\ raised = None
                                      THEN <<[df |-> df, loaded |-> loaded]>>
                                      ELSE <<>>
                         /\ raised' = None
    /\ UNCHANGED <<now, ticks, nGet, tickers, fetched, lastCsv>>

(***************************************************************************)
(* main, one process per command line                                      *)
(***************************************************************************)
Choices == {"download", "plot", "all"}
DefaultAction == "all"

Argvs == {<<>>, <<"download">>, <<"plot">>, <<"all">>, <<"fetch">>}

\* parser.parse_args(): the optional positional, or the default
ParseArgs(a) == IF a = <<>> THEN DefaultAction ELSE a[1]

\* args.action in ("download", "all")
RunsDownloadOnly(act) == act = "download"
RunsDownload(act) == act \in {"download", "all"}
\* args.action in ("plot", "all")
RunsPlot(act) == act \in {"plot", "all"}

\* What yf.download returns in the runs of main.
Row(time, close) == [Datetime |-> time, Close |-> close]
FaangSet == {FAANG[i] : i \in 1..Len(FAANG)}
Quiet == [t \in FaangSet |-> <<>>]
Partial == [t \in FaangSet |-> IF t = GOOG THEN <<Row(1, Num(2)), Row(2, Num(1))>> ELSE <<>>]
Full ==
    [t \in FaangSet |->
        IF t = NFLX THEN <<Row(1, Num(0)), Row(2, Num(3))>>
        ELSE IF t = AMZN THEN <<Row(1, NA), Row(2, NA)>>
        ELSE IF t = AAPL THEN <<Row(1, NA), Row(2, Num(4)), Row(3, Num(6))>>
        ELSE <<Row(1, Num(10)), Row(2, Num(11)), Row(3, Num(12))>>]
Downloads == {Quiet, Partial, Full}

Start ==
    /\ pc \in {"idle", "exit", "failed", "usage_error"}
    /\ runs < MaxRuns
    /\ runs' = runs + 1
    /\ stages' = <<>>
    /\ \E a \in Argvs :
        /\ argv' = a
        /\ IF a = <<>> \/ a[1] \in Choices
           THEN action' = ParseArgs(a) /\ pc' = "line117"
           ELSE action' = None /\ pc' = "usage_error"
    /\ UNCHANGED <<now, ticks, fs, nGet, nPlot, last, raised, pre, tickers, fetched,
                   lastCsv, loaded, df, dfPrev>>

MainDownload ==
    /\ pc = "line117"
    /\ RunsDownload(action)
    /\ stages' = Append(stages, "get_data")
    /\ \E w \in Downloads : get_data(FAANG, w)
    /\ pc' = IF raised' = None THEN "line120" ELSE "failed"
    /\ UNCHANGED <<argv, action, runs>>

MainSkipDownload ==
    /\ pc = "line117"
    /\ ~RunsDownload(action)
    /\ pc' = "line120"
    /\ UNCHANGED <<now, ticks, fs, nGet, nPlot, last, raised, pre, tickers, fetched,
                   lastCsv, loaded, df, dfPrev, argv, action, stages, runs>>

MainPlot ==
    /\ pc = "line120"
    /\ RunsPlot(action)
    /\ stages' = Append(stages, "plot_data")
    /\ plot_data
    /\ pc' = IF raised' = None THEN "exit" ELSE "failed"
    /\ UNCHANGED <<argv, action, runs>>

MainSkipPlot ==
    /\ pc = "line120"
    /\ ~RunsPlot(action)
    /\ pc' = "exit"
    /\ UNCHANGED <<now, ticks, fs, nGet, nPlot, last, raised, pre, tickers, fetched,
                   lastCsv, loaded, df, dfPrev, argv, action, stages, runs>>

\* a second passes
Tick ==
    /\ ticks < MaxTicks
    /\ ticks' = ticks + 1
    /\ now' = NextSecond(now)
    /\ UNCHANGED <<fs, nGet, nPlot, last, raised, pre, tickers, fetched, lastCsv,
                   loaded, df, dfPrev, pc, argv, action, stages, runs>>

InitProcess ==
    /\ ticks = 0
    /\ last = "none"
    /\ raised = None
    /\ pre = <<>>
    /\ tickers = <<>>
    /\ fetched = <<>>
    /\ loaded = NoFile
    /\ df = <<>>
    /\ dfPrev = <<>>
    /\ argv = <<>>
    /\ action = None
    /\ stages = <<>>
    /\ runs = 0

\* a fresh checkout: no data/ and no plots/ yet
Init ==
    /\ now \in StartTimes
    /\ pc = "idle"
    /\ fs = <<>>
    /\ nGet = 0
    /\ nPlot = 0
    /\ lastCsv = NoFile
    /\ InitProcess

Next ==
    \/ Start
    \/ MainDownload
    \/ MainSkipDownload
    \/ MainPlot
    \/ MainSkipPlot
    \/ Tick

Spec == Init /\ [][Next]_vars

(***************************************************************************)
(* A caller of the two functions: get_data(tickers), then plot_data(),     *)
(* each error caught.  A download is a pair of series over two tickers     *)
(* with increasing timestamps: one ticker has any series over 1..MaxTime   *)
(* with closes in Closes, the other one of four short series.              *)
(***************************************************************************)
TwoTickers == {META, AAPL}
TickerLists == UNION {[1..n -> TwoTickers] : n \in 0..MaxLen}
Closes == {NA} \cup {Num(c) : c \in 0..MaxClose}

SeriesOf(f) ==
    LET S == DOMAIN f
    IN  [k \in 1..Cardinality(S) |->
            LET t == CHOOSE u \in S : Cardinality({v \in S : v < u}) = k - 1
            IN  Row(t, f[t])]
SeriesSet == {SeriesOf(f) : f \in UNION {[S -> Closes] : S \in SUBSET (1..MaxTime)}}
ShortSeries ==
    { <<>>,
      <<Row(2, NA)>>,
      <<Row(1, Num(0)), Row(2, Num(2))>>,
      <<Row(1, Num(2)), Row(2, Num(1))>> }
AllDownloads == {w \in [TwoTickers -> SeriesSet] : \E t \in TwoTickers : w[t] \in ShortSeries}

CallGetData ==
    /\ pc = "call_get_data"
    /\ \E ts \in TickerLists, w \in AllDownloads : get_data(ts, w)
    /\ pc' = "call_plot_data"
    /\ UNCHANGED <<argv, action, stages, runs>>

CallPlotData ==
    /\ pc = "call_plot_data"
    /\ plot_data
    /\ pc' = "returned"
    /\ UNCHANGED <<argv, action, stages, runs>>

\* What `all` left behind the day before, when only GOOG had data.
OlderTime == [Y |-> 2026, Mo |-> 11, D |-> 2, H |-> 9, Mi |-> 0, S |-> 0]
OlderCsv ==
    [kind |-> "csv",
     body |-> ToCsv(SortValues(Concat(Dfs(FAANG, Partial)), GetDataSortKeys)),
     seq |-> 1]
OlderPng ==
    [kind |-> "png",
     body |-> [lines |-> Lines(WithNormClose(SortValues(ReadCsv(OlderCsv.body),
                                                        PlotSortKeys))),
               title |-> TitleDate(DataPath(OlderTime).name)],
     seq |-> 2]
OlderFs ==
    WriteFile(WriteFile(<<>>, DataPath(OlderTime), OlderCsv),
              PlotOutPath(OlderTime), OlderPng)

\* the working directory is fresh, or holds the files of the earlier run
InitTable ==
    /\ now = [Y |-> 2026, Mo |-> 11, D |-> 3, H |-> 14, Mi |-> 30, S |-> 0]
    /\ pc = "call_get_data"
    /\ \/ /\ fs = <<>>
          /\ nGet = 0
          /\ nPlot = 0
          /\ lastCsv = NoFile
       \/ /\ fs = OlderFs
          /\ nGet = 1
          /\ nPlot = 1
          /\ lastCsv = OlderCsv
    /\ InitProcess

NextTable ==
    \/ CallGetData
    \/ CallPlotData

SpecTable == InitTable /\ [][NextTable]_vars

(***************************************************************************)
(* Properties                                                              *)
(***************************************************************************)
PlotSucceeded == last = "plot_data" /\ raised = None
PngFiles(f) == {p \in DOMAIN f : f[p].kind = "png"}
\* the chart the most recent successful plot_data wrote
LastChart == fs[CHOOSE p \in PngFiles(fs) : \A q \in PngFiles(fs) : fs[q].seq <= fs[p].seq]

\* rows of ticker t in df whose close is present and whose timestamp is the
\* earliest of such rows
FirstPresent(t) ==
    LET present == {j \in 1..Len(df) : df[j].Ticker = t /\ df[j].Close # NA}
    IN  {j \in present : \A k \in present : df[j].Datetime <= df[k].Datetime}
HasBase(t) == \E j \in FirstPresent(t) : df[j].Close # Num(0)
TickersOfDf == {df[i].Ticker : i \in 1..Len(df)}

\* C1: after plot_data, for every ticker whose chronologically first present
\* close b is not zero, every row with a present close has NormClose = Close / b
\* (1.0 on the row of b itself) and every row with a missing close has a missing
\* NormClose.
C1_NormalizedByFirstClose ==
    PlotSucceeded =>
        /\ Len(df) = Len(loaded.body)
        /\ \A i \in 1..Len(df) : \A first \in FirstPresent(df[i].Ticker) :
            LET b == df[first].Close
                c == df[i].Close
                n == df[i].NormClose
            IN  b # Num(0) =>
                    /\ c = NA => n = NA
                    /\ c # NA => n # NA /\ n[2] > 0 /\ n[1] * b[1] = c[1] * n[2]
                    /\ i = first => n = Num(1)

\* a ticker that starts with a missing close, and a ticker with a row below its base
C1_Witness ==
    /\ PlotSucceeded
    /\ \E i, j \in 1..Len(df) :
        /\ df[i].Ticker = df[j].Ticker
        /\ df[i].Datetime < df[j].Datetime
        /\ df[i].Close = NA /\ df[i].NormClose = NA
        /\ df[j].Close = Num(2) /\ df[j].NormClose = Num(1)
    /\ \E i, j \in 1..Len(df) :
        /\ df[i].Ticker = df[j].Ticker
        /\ df[i].NormClose = Num(1)
        /\ df[j].NormClose = <<1, 2>>

\* C2: when a table exists plot_data completes and writes a chart, no NormClose
\* is a division by zero, and a ticker whose first present close is 0, or that
\* has no present close, has every NormClose missing and no line in the chart.
C2_UndefinedBaseOmitted ==
    (last = "plot_data" /\ GlobCsv(pre) # {}) =>
        /\ raised = None
        /\ PngFiles(fs) # {}
        /\ LastChart.seq = nGet + nPlot
        /\ \A i \in 1..Len(df) : df[i].NormClose # NA => df[i].NormClose[2] # 0
        /\ \A t \in TickersOfDf :
            ~HasBase(t) =>
                /\ \A i \in 1..Len(df) : df[i].Ticker = t => df[i].NormClose = NA
                /\ t \notin DOMAIN LastChart.body.lines

\* two tickers, one with base 0 and one with no close at all: an empty chart
C2_Witness ==
    /\ PlotSucceeded
    /\ Cardinality(TickersOfDf) = 2
    /\ \E i, j \in 1..Len(df) :
        /\ df[i].Close = Num(0) /\ df[j].Close = Num(1)
        /\ df[i].Ticker = df[j].Ticker /\ df[i].Datetime < df[j].Datetime
    /\ \E t \in TickersOfDf : FirstPresent(t) = {}
    /\ DOMAIN LastChart.body.lines = {}
    /\ LastChart.seq = nGet + nPlot

AllEmpty == \A i \in 1..Len(tickers) : fetched[tickers[i]] = <<>>

\* C3: a get_data call in which every requested ticker (none, for the empty
\* list) returned an empty series raises and leaves every file as it was.
C3_NoDataNoFile ==
    (last = "get_data" /\ AllEmpty) => raised = GetDataError /\ fs = pre

C3_Witness ==
    /\ last = "get_data" /\ raised = GetDataError
    /\ Len(tickers) = 2 /\ AllEmpty
    /\ fs = pre /\ GlobCsv(fs) # {}

C3_WitnessEmptyList ==
    last = "get_data" /\ raised = GetDataError /\ tickers = <<>> /\ fs = pre

\* C4: plot_data with no table file in data/ raises an error that is not the
\* one get_data raises, and writes nothing.
C4_NoTableError ==
    (last = "plot_data" /\ GlobCsv(pre) = {}) =>
        /\ raised # None
        /\ raised # GetDataError
        /\ fs = pre

C4_Witness ==
    last = "plot_data" /\ GlobCsv(pre) = {} /\ raised = PlotDataError /\ pc = "failed"

SeqPermutations(ts) ==
    {[i \in 1..Len(ts) |-> ts[p[i]]] : p \in Permutations(1..Len(ts))}

\* C5: the table get_data wrote is ordered by timestamp, then ticker, and is
\* the table get_data writes for every other order of the same tickers.
C5_SortedAnyOrder ==
    (last = "get_data" /\ raised = None) =>
        LET rows == ReadCsv(lastCsv.body)
        IN  /\ \A i, j \in 1..Len(rows) :
                i < j =>
                    \/ rows[i].Datetime < rows[j].Datetime
                    \/ /\ rows[i].Datetime = rows[j].Datetime
                       /\ ~StrLess(rows[j].Ticker, rows[i].Ticker)
            /\ \A perm \in SeqPermutations(tickers) :
                ToCsv(SortValues(Concat(Dfs(perm, fetched)), GetDataSortKeys))
                    = lastCsv.body

\* META fetched before AAPL, both with a row at the same hour
C5_Witness ==
    /\ last = "get_data" /\ raised = None
    /\ tickers = <<META, AAPL>>
    /\ \E i \in 1..(Len(lastCsv.body) - 1) :
        /\ lastCsv.body[i].Datetime = lastCsv.body[i + 1].Datetime
        /\ lastCsv.body[i].Ticker = AAPL
        /\ lastCsv.body[i + 1].Ticker = META

Occurrences(t) == Cardinality({i \in 1..Len(tickers) : tickers[i] = t})

\* C6: a get_data call in which some ticker returned data succeeds, and the
\* table it wrote holds the rows of the tickers that returned data, each under
\* its own ticker, and nothing else; no table on disk is empty.
C6_PartialData ==
    /\ (last = "get_data" /\ ~AllEmpty) =>
        /\ raised = None
        /\ fs[DataPath(now)] = lastCsv
        /\ LET rows == ReadCsv(lastCsv.body)
               asked == {tickers[i] : i \in 1..Len(tickers)}
           IN  /\ {rows[i] : i \in 1..Len(rows)}
                    = {[Datetime |-> fetched[t][k].Datetime,
                        Close |-> fetched[t][k].Close,
                        Ticker |-> t] : <<t, k>> \in
                            {<<u, m>> \in asked \X (1..MaxTime) : m <= Len(fetched[u])}}
               /\ \A t \in asked :
                    Cardinality({i \in 1..Len(rows) : rows[i].Ticker = t})
                        = Occurrences(t) * Len(fetched[t])
               /\ Len(rows) > 0
    /\ \A p \in GlobCsv(fs) : fs[p].body # <<>>

\* AAPL returned two rows and META none
C6_Witness ==
    /\ last = "get_data" /\ raised = None
    /\ tickers = <<META, AAPL>>
    /\ fetched[META] = <<>>
    /\ Len(fetched[AAPL]) = 2
    /\ Len(lastCsv.body) = 2

\* C7: plot_data reads the table of the most recent successful get_data, and
\* the greatest .csv name in data/ is the table written last.
C7_LatestIsNewest ==
    /\ PlotSucceeded => loaded = lastCsv
    /\ nGet > 0 =>
        /\ fs[Latest(fs)] = lastCsv
        /\ \A p \in GlobCsv(fs) : fs[p].seq <= fs[Latest(fs)].seq

\* two tables, written in different seconds across 09:59:59 -> 10:00:00
C7_Witness ==
    /\ PlotSucceeded
    /\ Cardinality(GlobCsv(fs)) = 2
    /\ now.H = 10
    /\ loaded = lastCsv
    /\ loaded.seq > 1

\* C8: every successful call leaves one more file in its directory: data/ holds
\* as many tables as get_data succeeded, plots/ as many charts as plot_data did.
C8_OneNewFilePerCall ==
    /\ Cardinality(GlobCsv(fs)) = nGet
    /\ Cardinality(PngFiles(fs)) = nPlot

\* C9: download runs get_data only, plot runs plot_data only, all (also the
\* default) runs get_data and then plot_data; plot_data starts under all only
\* when get_data has returned, and a failed get_data ends the run with its
\* error and with no file written.
C9_StagesByAction ==
    /\ pc \in {"line117", "line120", "exit", "failed"} =>
        /\ argv = <<>> => action = "all"
        /\ argv # <<>> => action = argv[1]
    /\ pc = "exit" =>
        /\ action = "download" => stages = <<"get_data">>
        /\ action = "plot" => stages = <<"plot_data">>
        /\ action = "all" => stages = <<"get_data", "plot_data">>
    /\ (pc = "line120" /\ action = "all") =>
        stages = <<"get_data">> /\ last = "get_data" /\ raised = None
    /\ (pc = "failed" /\ action = "all" /\ last = "get_data") =>
        /\ stages = <<"get_data">>
        /\ raised = GetDataError
        /\ fs = pre
    /\ (pc = "failed" /\ action = "download") => stages = <<"get_data">>
    /\ (pc = "failed" /\ action = "plot") => stages = <<"plot_data">>

\* the default action has run both stages
C9_Witness ==
    /\ pc = "exit" /\ argv = <<>>
    /\ stages = <<"get_data", "plot_data">>
    /\ nGet = 1 /\ nPlot = 1

\* all stopped at a failed get_data, with an older table on disk
C9_WitnessFailed ==
    /\ pc = "failed" /\ action = "all" /\ raised = GetDataError
    /\ GlobCsv(fs) # {} /\ fs = pre

\* C10: plot_data leaves the table files as they were, and a plot_data call
\* right after another reads the same table and computes the same data frame.
C10_PlotReadsOnly ==
    /\ last = "plot_data" =>
        /\ GlobCsv(fs) = GlobCsv(pre)
        /\ \A p \in GlobCsv(pre) : fs[p] = pre[p]
    /\ dfPrev # <<>> => dfPrev[1].df = df /\ dfPrev[1].loaded = loaded

\* two plot_data calls in different seconds: two charts from one table
C10_Witness ==
    /\ PlotSucceeded
    /\ dfPrev # <<>>
    /\ \E i \in 1..Len(df) : df[i].NormClose \notin {NA, Num(1)}
    /\ Cardinality(PngFiles(fs)) = 2
    /\ nGet = 1

====
